---------------------------- MODULE Spec2Model ----------------------------
(***************************************************************************)
(* jsonenv (lib/main.js): injection of flat KEY=VALUE entries into a       *)
(* nested configuration object.                                            *)
(*                                                                         *)
(* JavaScript values are records of one shape, [t, s, len, e]:             *)
(*   t    the kind: "undefined", "null", "string", "number", "boolean",    *)
(*        "object", "array", and "error" for a thrown exception;           *)
(*   s    the payload of a scalar: the string itself, the canonical        *)
(*        ToString of a number ("42", "3.5", "NaN", "Infinity"), "true" /  *)
(*        "false" for a boolean, the message of an error;                  *)
(*   len  the length property of an array;                                 *)
(*   e    the own enumerable properties of a container, in the order       *)
(*        Object.keys gives them, each [k |-> key, v |-> value].           *)
(* A property key, like every string that is split on '.', is the sequence *)
(* of its dot-free segments: "a.b" is <<"a","b">>, "a" is <<"a">> and the  *)
(* prefix "a." of deflate is <<"a">> followed by what is appended to it.   *)
(***************************************************************************)
EXTENDS Integers, Sequences, FiniteSets, TLC

VARIABLES conf, env, op, arg, out, calls

vars == <<conf, env, op, arg, out, calls>>

-----------------------------------------------------------------------------
(* JavaScript values *)

Undef == [t |-> "undefined", s |-> "", len |-> 0, e |-> <<>>]

Null == [t |-> "null", s |-> "", len |-> 0, e |-> <<>>]

Str(x) == [t |-> "string", s |-> x, len |-> 0, e |-> <<>>]

Num(x) == [t |-> "number", s |-> x, len |-> 0, e |-> <<>>]

Bool(b) == [t |-> "boolean", s |-> IF b THEN "true" ELSE "false", len |-> 0, e |-> <<>>]

Obj(entries) == [t |-> "object", s |-> "", len |-> 0, e |-> entries]

Arr(n, entries) == [t |-> "array", s |-> "", len |-> n, e |-> entries]

Err(msg) == [t |-> "error", s |-> msg, len |-> 0, e |-> <<>>]

IsErr(v) == v.t = "error"

IsContainer(v) == v.t \in {"object", "array"}

\* typeof v
TypeOf(v) == IF v.t \in {"null", "array"} THEN "object" ELSE v.t

\* ToBoolean(v): the test of `if (v)` and of `v || w`
Truthy(v) ==
    CASE v.t \in {"undefined", "null"} -> FALSE
      [] v.t = "string" -> v.s # ""
      [] v.t = "number" -> v.s \notin {"0", "NaN"}
      [] v.t = "boolean" -> v.s = "true"
      [] OTHER -> TRUE

\* The canonical array indices of the model, "0" .. "7", by value + 1.
IndexStr == <<"0", "1", "2", "3", "4", "5", "6", "7">>

\* The array index a property name denotes, -1 when it is no array index.
IndexOf(k) ==
    IF Len(k) = 1 /\ \E i \in 1..Len(IndexStr) : IndexStr[i] = k[1]
    THEN (CHOOSE i \in 1..Len(IndexStr) : IndexStr[i] = k[1]) - 1
    ELSE -1

IdxKey(i) == <<IndexStr[i + 1]>>

\* Number(s) for a string s, as the canonical ToString of the result.
\* Exact on every string the inputs hold (StrUniverse, EnvPairs, the
\* defaults, the key segments) and on every string holding a ','.
NumberOfString(s) ==
    CASE s \in {"", " "} -> "0"
      [] s \in {"0", "1", "2", "3", "5", "7", "42", "3.5", "8080", "Infinity"} -> s
      [] s = "01" -> "1"
      [] s = " 42 " -> "42"
      [] OTHER -> "NaN"

\* s.trim()
Trim(s) ==
    CASE s = " true " -> "true"
      [] s = " 42 " -> "42"
      [] s = " " -> ""
      [] s = " b" -> "b"
      [] OTHER -> s

\* s.toLowerCase()
ToLowerCase(s) ==
    CASE s = "TRUE" -> "true"
      [] s = "False" -> "false"
      [] OTHER -> s

\* The position of key k among entries, 0 when absent.
Pos(entries, k) ==
    IF \E i \in 1..Len(entries) : entries[i].k = k
    THEN CHOOSE i \in 1..Len(entries) : entries[i].k = k
    ELSE 0

\* Where a new property named k is enumerated: integer-like names first, in
\* ascending order, then the other names in insertion order.
InsertAt(entries, k) ==
    IF IndexOf(k) >= 0
    THEN 1 + Cardinality({i \in 1..Len(entries) :
                             IndexOf(entries[i].k) >= 0 /\ IndexOf(entries[i].k) < IndexOf(k)})
    ELSE Len(entries) + 1

\* entries after `o[k] = v`
Put(entries, k, v) ==
    LET p == Pos(entries, k) IN
    IF p > 0 THEN [entries EXCEPT ![p] = [k |-> k, v |-> v]]
    ELSE LET q == InsertAt(entries, k) IN
         SubSeq(entries, 1, q - 1) \o <<[k |-> k, v |-> v]>> \o SubSeq(entries, q, Len(entries))

RECURSIVE PutAll(_, _)
\* entries after `{ ...entries, ...more }`
PutAll(entries, more) ==
    IF more = <<>> THEN entries
    ELSE PutAll(Put(entries, Head(more).k, Head(more).v), Tail(more))

\* o[k]: undefined for a missing property, a hole, or a property of a scalar
GetProp(o, k) ==
    IF IsContainer(o) /\ Pos(o.e, k) > 0 THEN o.e[Pos(o.e, k)].v ELSE Undef

\* o after `o[k] = v`; an array grows to hold an index.  A write to a
\* property of a primitive is ignored (the module is not in strict mode).
SetProp(o, k, v) ==
    CASE o.t = "object" -> Obj(Put(o.e, k, v))
      [] o.t = "array" ->
            Arr(IF IndexOf(k) + 1 > o.len THEN IndexOf(k) + 1 ELSE o.len, Put(o.e, k, v))
      [] OTHER -> o

\* Object.keys(o), as the sequence of names
Keys(o) == [i \in 1..Len(o.e) |-> o.e[i].k]

\* Object.keys(v).length: a string has one key per character, a number or a
\* boolean has none.
KeyCount(v) == IF v.t = "string" THEN Len(v.s) ELSE Len(v.e)

\* A dense array of the given elements.
ArrOf(elems) == Arr(Len(elems), [i \in 1..Len(elems) |-> [k |-> IdxKey(i - 1), v |-> elems[i]]])

\* An object literal: names (single segments) and values, in source order.
ObjOf(names, values) ==
    Obj(PutAll(<<>>, [i \in 1..Len(names) |-> [k |-> <<names[i]>>, v |-> values[i]]]))

-----------------------------------------------------------------------------
(* PathCodec: deflate, deflateKeys, _inflateItem, inflate *)

RECURSIVE deflate(_, _)
RECURSIVE deflateEach(_, _, _)

\* The forEach of deflate over the remaining keys, `result` accumulated.
\* Object.keys(json[key]) throws a TypeError on undefined and on null.
deflateEach(entries, prefix, result) ==
    IF entries = <<>> THEN Obj(result)
    ELSE LET key == Head(entries).k
             value == Head(entries).v
         IN IF value.t \in {"undefined", "null"}
            THEN Err("TypeError: Cannot convert undefined or null to object")
            ELSE IF Truthy(value) /\ TypeOf(value) = "object" /\ KeyCount(value) > 0
            THEN LET sub == deflate(value, prefix \o key)
                 IN IF IsErr(sub) THEN sub
                    ELSE deflateEach(Tail(entries), prefix, PutAll(result, sub.e))
            ELSE deflateEach(Tail(entries), prefix, Put(result, prefix \o key, value))

deflate(json, prefix) == deflateEach(json.e, prefix, <<>>)

\* Object.keys(deflate(json, '', true)), as the sequence of names; the throw
\* of deflate is tested by its caller.
deflateKeys(json) == Keys(deflate(json, <<>>))

RECURSIVE _inflateItem(_, _, _)
_inflateItem(keys, value, result) ==
    LET number == NumberOfString(keys[1])
        fresh == number # "NaN" /\ KeyCount(result) = 0
        res == IF fresh THEN Arr(0, <<>>) ELSE result
        key == IF fresh THEN <<number>> ELSE <<keys[1]>>
    IN IF ~IsContainer(res) THEN res
       ELSE IF Len(keys) = 1 THEN SetProp(res, key, value)
       ELSE LET old == GetProp(res, key)
            IN SetProp(res, key,
                       _inflateItem(Tail(keys), value, IF Truthy(old) THEN old ELSE Obj(<<>>)))

\* The two halves of s.trim() on a key segment: leading, trailing whitespace
TrimStart(s) == IF s = " b" THEN "b" ELSE IF s = " " THEN "" ELSE s

TrimEnd(s) == IF s = " " THEN "" ELSE s

\* key.trim().split('.'): trim strips the start of the first segment and
\* the end of the last
TrimSplit(key) ==
    LET n == Len(key) IN
    [i \in 1..n |-> IF i = 1 /\ i = n THEN Trim(key[i])
                    ELSE IF i = 1 THEN TrimStart(key[i])
                    ELSE IF i = n THEN TrimEnd(key[i])
                    ELSE key[i]]

\* One pass of the loop of inflate.  _inflateItem writes into `result` in
\* place unless it rebinds its parameter to a new array, and inflate drops
\* what it returns: the rebinding case leaves `result` as it was.
inflateStep(result, key, value) ==
    LET keys == TrimSplit(key)
        rebinds == NumberOfString(keys[1]) # "NaN" /\ KeyCount(result) = 0
    IN IF rebinds THEN result ELSE _inflateItem(keys, value, result)

RECURSIVE inflateFrom(_, _)
inflateFrom(result, entries) ==
    IF entries = <<>> THEN result
    ELSE inflateFrom(inflateStep(result, Head(entries).k, Head(entries).v), Tail(entries))

inflate(obj) == inflateFrom(Obj(<<>>), obj.e)

-----------------------------------------------------------------------------
(* Conversions the coercer relies on *)

RECURSIVE ToStr(_)
RECURSIVE Join(_, _)

\* Array.prototype.join(","), from index i on: holes, undefined and null
\* give the empty string.
Join(a, i) ==
    IF i >= a.len THEN ""
    ELSE LET x == GetProp(a, IdxKey(i))
             sx == IF x.t \in {"undefined", "null"} THEN "" ELSE ToStr(x)
         IN IF i + 1 >= a.len THEN sx ELSE sx \o "," \o Join(a, i + 1)

\* String(v)
ToStr(v) ==
    CASE v.t = "undefined" -> "undefined"
      [] v.t = "null" -> "null"
      [] v.t = "object" -> "[object Object]"
      [] v.t = "array" -> Join(v, 0)
      [] OTHER -> v.s

\* Number(v), as the canonical ToString of the result
ToNumber(v) ==
    CASE v.t = "number" -> v.s
      [] v.t = "boolean" -> IF v.s = "true" THEN "1" ELSE "0"
      [] v.t = "undefined" -> "NaN"
      [] v.t = "null" -> "0"
      [] OTHER -> NumberOfString(ToStr(v))

\* JSON.parse(s) for a string s: a SyntaxError unless s is JSON text.
\* Exact on every string the inputs hold (StrUniverse, EnvPairs, the
\* defaults), on "[object Object]" and on the ','-joined text of an array.
JSONParseString(s) ==
    CASE s \in {"true", " true "} -> Bool(TRUE)
      [] s = "false" -> Bool(FALSE)
      [] s = "null" -> Null
      [] s \in {"0", "1", "2", "3", "5", "7", "42", "3.5", "8080"} -> Num(s)
      [] s = " 42 " -> Num("42")
      [] s = "[\"a\",\"b\",\"c\"]" -> ArrOf(<<Str("a"), Str("b"), Str("c")>>)
      [] s = "[\"a\"]" -> ArrOf(<<Str("a")>>)
      [] s = "{\"x\":1}" -> ObjOf(<<"x">>, <<Num("1")>>)
      [] s = "{\"b\":\"7\"}" -> ObjOf(<<"b">>, <<Str("7")>>)
      [] OTHER -> Err("SyntaxError: Unexpected token in JSON")

\* s.startsWith('{') || s.startsWith('['), on the strings the inputs hold
StartsWithBracket(s) ==
    s \in {"{\"x\":1}", "{\"b\":\"7\"}", "[\"a\"]", "[\"a\",\"b\",\"c\"]", "{oops"}

\* JSON.parse(v): the argument is converted to a string first
JSONParse(v) == JSONParseString(ToStr(v))

-----------------------------------------------------------------------------
(* TypeCoercer: mergeEnvObject, mergeEnvJsonValue, mergeEnvArray *)

TypeMismatch == Err("Properties type doesn't matched")

RECURSIVE mergeEnvObject(_, _)
RECURSIVE mergeEnvJsonValue(_, _, _)
RECURSIVE mergeEnvArray(_, _)
RECURSIVE mergeEachKey(_, _, _, _)
RECURSIVE mapElements(_, _, _, _, _)

\* [...new Set([...a, ...b])]: b's new names after a's, each once
RECURSIVE Union(_, _)
Union(a, b) ==
    IF b = <<>> THEN a
    ELSE Union(IF \E i \in 1..Len(a) : a[i] = Head(b) THEN a ELSE Append(a, Head(b)), Tail(b))

\* The loop of mergeEnvObject over the remaining keys; the first throw ends it.
mergeEachKey(keys, defaultJson, envValue, result) ==
    IF keys = <<>> THEN Obj(result)
    ELSE LET r == mergeEnvJsonValue(GetProp(defaultJson, Head(keys)),
                                    GetProp(envValue, Head(keys)), "")
         IN IF IsErr(r) THEN r
            ELSE mergeEachKey(Tail(keys), defaultJson, envValue, Put(result, Head(keys), r))

mergeEnvObject(defaultJsonArg, envValueArg) ==
    LET defaultJson == IF defaultJsonArg.t = "undefined" THEN Obj(<<>>) ELSE defaultJsonArg
        tmp == JSONParse(envValueArg)
        envValue == IF TypeOf(envValueArg) # "object" THEN tmp ELSE envValueArg
    IN IF envValueArg.t \in {"null", "undefined"} THEN defaultJson
       ELSE IF TypeOf(envValueArg) # "object" /\ TypeOf(envValueArg) # "string" THEN TypeMismatch
       ELSE IF TypeOf(envValueArg) = "string" /\ IsErr(tmp) THEN tmp
       ELSE IF TypeOf(envValueArg) = "string" /\ TypeOf(tmp) # "object" THEN Err("Invalid json string")
       ELSE IF defaultJson.t = "null" \/ envValue.t = "null"
            THEN Err("TypeError: Cannot convert undefined or null to object")
       ELSE mergeEachKey(Union(Keys(defaultJson), Keys(envValue)), defaultJson, envValue, <<>>)

\* The untyped branch of mergeEnvJsonValue (typeOfDj falsy); a throw of
\* JSON.parse is caught and the default kept.
inferValue(defaultValue, envValue) ==
    LET strValue == Trim(ToStr(envValue))
        number == NumberOfString(strValue)
        parsed == JSONParseString(strValue)
    IN IF number # "NaN" THEN Num(number)
       ELSE IF StartsWithBracket(strValue)
            THEN IF IsErr(parsed) THEN defaultValue ELSE parsed
       ELSE IF ToLowerCase(strValue) = "true" THEN Bool(TRUE)
       ELSE IF ToLowerCase(strValue) = "false" THEN Bool(FALSE)
       ELSE Str(strValue)

\* (defaultValue !== null && defaultValue !== undefined
\*     ? typeof defaultValue : defaultType) || typeof envValue
\* An omitted defaultType is "" here: both are falsy.
typeOfDj(defaultValue, envValue, defaultType) ==
    LET first == IF defaultValue.t \notin {"null", "undefined"}
                 THEN TypeOf(defaultValue) ELSE defaultType
    IN IF first # "" THEN first ELSE TypeOf(envValue)

\* The boolean branch with the test of the parsed value left out: whatever
\* JSON.parse returns is taken.
coerceBoolean_anyJson(envValue) == JSONParse(envValue)

\* typeOfDj === 'boolean': JSON.parse(envValue) must be true or false
coerceBoolean(envValue) ==
    LET value == JSONParse(envValue)
    IN IF IsErr(value) THEN value
       ELSE IF value.t = "boolean" THEN value ELSE TypeMismatch

\* The branches under `if (envValue)`, by typeOfDj
coerceTyped(defaultValue, envValue, defaultType) ==
    LET ty == typeOfDj(defaultValue, envValue, defaultType) IN
    CASE ty = "array" \/ defaultValue.t = "array" -> mergeEnvArray(defaultValue, envValue)
      [] ty = "object" -> mergeEnvObject(defaultValue, envValue)
      [] ty = "boolean" -> coerceBoolean(envValue)
      [] ty = "number" ->
           LET value == ToNumber(envValue)
           IN IF value = "NaN" THEN TypeMismatch ELSE Num(value)
      [] ty = "" -> inferValue(defaultValue, envValue)
      [] OTHER -> envValue

\* mergeEnvJsonValue testing `envValue !== undefined` in place of `envValue`
mergeEnvJsonValue_definedOnly(defaultValue, envValue, defaultType) ==
    IF envValue.t = "undefined" THEN defaultValue
    ELSE coerceTyped(defaultValue, envValue, defaultType)

mergeEnvJsonValue(defaultValue, envValue, defaultType) ==
    IF ~Truthy(envValue) THEN defaultValue
    ELSE coerceTyped(defaultValue, envValue, defaultType)

\* Array.prototype.map over `src`: the callback runs for the indices src
\* holds, holes stay holes, and the first throw ends it.  With fromEnv the
\* source is envValue and `other` the default; otherwise the reverse.
mapElements(entries, other, valueType, fromEnv, result) ==
    IF entries = <<>> THEN result
    ELSE LET k == Head(entries).k
             v == Head(entries).v
             r == IF fromEnv THEN mergeEnvJsonValue(GetProp(other, k), v, valueType)
                  ELSE mergeEnvJsonValue(v, GetProp(other, k), valueType)
         IN IF IndexOf(k) < 0 THEN mapElements(Tail(entries), other, valueType, fromEnv, result)
            ELSE IF IsErr(r) THEN r
            ELSE mapElements(Tail(entries), other, valueType, fromEnv,
                             Arr(result.len, Put(result.e, k, r)))

mergeEnvArray(defaultJsonArg, envValueArg) ==
    LET defaultJson == IF defaultJsonArg.t = "undefined" THEN Arr(0, <<>>) ELSE defaultJsonArg
        tmp == JSONParse(envValueArg)
        envValue == IF envValueArg.t # "array" THEN tmp ELSE envValueArg
        valueType == TypeOf(GetProp(defaultJson, IdxKey(0)))
    IN IF envValueArg.t \in {"null", "undefined"} THEN defaultJson
       ELSE IF envValueArg.t # "array" /\ TypeOf(envValueArg) # "string" THEN TypeMismatch
       ELSE IF envValueArg.t # "array" /\ IsErr(tmp) THEN tmp
       ELSE IF envValueArg.t # "array" /\ tmp.t # "array" THEN Err("Invalid json array string")
       ELSE IF defaultJson.len > 0
            THEN IF envValue.len > defaultJson.len
                 THEN mapElements(envValue.e, defaultJson, valueType, TRUE, Arr(envValue.len, <<>>))
                 ELSE mapElements(defaultJson.e, envValue, valueType, FALSE, Arr(defaultJson.len, <<>>))
            ELSE envValue

-----------------------------------------------------------------------------
(* Merger: merge, config *)

\* envKey.startsWith(`${i}.`) for the index i of `for (const key in keys)`
StartsWithIndexDot(envKey, i) == Len(envKey) >= 2 /\ envKey[1] = IndexStr[i + 1]

\* Object.keys(process.env).filter(...) of merge: for...in over the array
\* `keys` enumerates its indices "0", "1", ..., not the paths it holds.
filterEnvKeys(keys, environ) ==
    SelectSeq(Keys(environ), LAMBDA envKey : \E i \in 0..(Len(keys) - 1) : StartsWithIndexDot(envKey, i))

RECURSIVE collectEnv(_, _, _)
\* The loop of merge over allKeys: envConfig[key] = process.env[key] when
\* that is defined.
collectEnv(allKeys, environ, envConfig) ==
    IF allKeys = <<>> THEN Obj(envConfig)
    ELSE LET envValue == GetProp(environ, Head(allKeys))
         IN collectEnv(Tail(allKeys), environ,
                       IF envValue.t # "undefined" THEN Put(envConfig, Head(allKeys), envValue)
                       ELSE envConfig)

\* merge(conf, envKeys) over process.env = environ; `given` is FALSE when
\* envKeys is omitted.
merge(confArg, given, envKeysArg, environ) ==
    LET c == IF confArg.t = "undefined" THEN Obj(<<>>) ELSE confArg
        flat == deflate(c, <<>>)
        keys == deflateKeys(c)
        envKeys == IF ~given THEN filterEnvKeys(keys, environ) ELSE envKeysArg
        envConfig == collectEnv(keys \o envKeys, environ, <<>>)
        envJson == inflate(envConfig)
    IN IF IsErr(flat) THEN flat ELSE mergeEnvObject(c, envJson)

RECURSIVE assignAll(_, _)
\* for (let key in mergedConfig) conf[key] = mergedConfig[key]
assignAll(c, entries) ==
    IF entries = <<>> THEN c
    ELSE assignAll(SetProp(c, Head(entries).k, Head(entries).v), Tail(entries))

\* merge copying its result onto the object it was given, as config does
mergeEffect_inPlace(c, merged) == IF IsErr(merged) THEN c ELSE assignAll(c, merged.e)

\* What merge leaves in the object it was given: no statement of merge,
\* mergeEnvObject, mergeEnvJsonValue or mergeEnvArray assigns to defaultJson
\* or to a container reached from it; results go into fresh objects.
mergeEffect(c, merged) == c

\* config catching the throw of merge and recording it on conf
configEffect_recordsError(c, merged) ==
    IF IsErr(merged) THEN SetProp(c, <<"error">>, Str(merged.s)) ELSE assignAll(c, merged.e)

\* What config leaves in conf: merge throws before the copy loop starts.
configEffect(c, merged) == IF IsErr(merged) THEN c ELSE assignAll(c, merged.e)

\* What config returns: conf itself, or the throw of merge.
configReturn(c, merged) == IF IsErr(merged) THEN merged ELSE configEffect(c, merged)

-----------------------------------------------------------------------------
(* Bounds and inputs *)

\* Entries process.env may hold beyond the empty environment.
MaxEnv == 3

\* Calls of config in one run.
MaxCalls == 1

\* Longest array among the trees given to deflate.
MaxArrLen == 2

\* Most entries of a flat mapping given to inflate.
MaxFlat == 2

\* Deepest nesting of the trees given to deflate.
MaxDepth == 2

\* The strings that occur as raw values; NumberOfString, JSONParseString,
\* Trim, ToLowerCase and StartsWithBracket are exact on each of them.
StrUniverse ==
    {"", "0", "false", "true", " true ", "TRUE", "42", " 42 ", "3.5", "Infinity", "01",
     "not-a-number", "a", "[\"a\",\"b\",\"c\"]", "{\"x\":1}", "{oops"}

\* Default configuration objects a caller passes.
DefaultConfs ==
    << ObjOf(<<"flag">>, <<Bool(TRUE)>>),
       ObjOf(<<"port">>, <<Num("8080")>>),
       ObjOf(<<"a">>, <<ObjOf(<<"b">>, <<Num("1")>>)>>),
       ObjOf(<<"arr">>, <<ArrOf(<<Str("x"), Str("y")>>)>>),
       Obj(<<>>),
       ObjOf(<<"j">>, <<Obj(<<>>)>>),
       ObjOf(<<"a">>, <<Str("x")>>),
       ObjOf(<<"a", "flag">>, <<Num("1"), Bool(FALSE)>>) >>

\* KEY=VALUE lines the raw parser may put into process.env.
EnvPairs ==
    << <<<<"flag">>, "false">>, <<<<"flag">>, "0">>, <<<<"flag">>, "">>,
       <<<<"port">>, "not-a-number">>, <<<<"port">>, "42">>,
       <<<<"a", "b">>, "42">>, <<<<"a">>, "5">>, <<<<"a">>, "{\"b\":\"7\"}">>,
       <<<<"arr", "0">>, "a">>, <<<<"arr", "1">>, "b">>, <<<<"arr", "2">>, "c">>,
       <<<<"arr">>, "[\"a\",\"b\",\"c\"]">>,
       <<<<"j">>, "{\"x\":1}">>, <<<<"j">>, "{oops">>,
       <<<<"n">>, "3.5">>, <<<<"0", "foo">>, "z">> >>

\* The lines considered with a given default: those under one of its
\* top-level names, and the stray names "n" and "0".
PairsFor(c) ==
    {i \in 1..Len(EnvPairs) :
        \/ EnvPairs[i][1][1] \in {"n", "0"}
        \/ \E j \in 1..Len(c.e) : c.e[j].k = <<EnvPairs[i][1][1]>>}

\* Trees given to deflate: objects over the names "a" and "0" and arrays of
\* up to MaxArrLen elements, scalar leaves, no empty container.
TreeLeaves == {Str("x"), Num("1")}

TreeNames == <<"a", "0">>

ObjectsOver(children) ==
    UNION {{ObjOf(SelectSeq(TreeNames, LAMBDA n : n \in S),
                  [i \in 1..Cardinality(S) |-> f[SelectSeq(TreeNames, LAMBDA n : n \in S)[i]]]) :
               f \in [S -> children]} :
           S \in (SUBSET {TreeNames[i] : i \in 1..Len(TreeNames)}) \ {{}}}

ArraysOver(children) ==
    UNION {{ArrOf(t) : t \in [1..n -> children]} : n \in 1..MaxArrLen}

RECURSIVE TreesOfDepth(_)
\* Leaves, and the containers nested at most d levels deep.
TreesOfDepth(d) ==
    IF d = 0 THEN TreeLeaves
    ELSE LET below == TreesOfDepth(d - 1)
         IN below \cup ObjectsOver(below) \cup ArraysOver(below)

CodecTrees(d) == TreesOfDepth(d) \ TreeLeaves

\* Flat mappings given to inflate: n entries, keys of one segment or of two
\* under "a" or "0", the i-th entry written holding the string "v<i>".
FlatSegs == {"a", "0", "01", "", "Infinity", " b"}

FlatKeys == {<<x>> : x \in FlatSegs} \cup {<<x, y>> : x \in {"a", "0"}, y \in FlatSegs}

FlatValue(i) == Str(<<"v1", "v2", "v3", "v4">>[i])

FlatMappings(n) ==
    {Obj(PutAll(<<>>, [i \in 1..n |-> [k |-> ks[i], v |-> FlatValue(i)]])) :
        ks \in {q \in [1..n -> FlatKeys] : \A i, j \in 1..n : i # j => q[i] # q[j]}}

\* Default values and incoming values given to the coercer.  The incoming
\* containers are what inflate builds under a name: a dense array, an array
\* with holes, an object.
CoerceDefaults ==
    {Undef, Null, Bool(TRUE), Bool(FALSE), Num("8080"), Num("0"), Str("x"), Str(""),
     Obj(<<>>), ObjOf(<<"b">>, <<Num("1")>>),
     ArrOf(<<>>), ArrOf(<<Str("x"), Str("y")>>), ArrOf(<<Num("1")>>)}

InflatedUnder(pairs) ==
    GetProp(inflate(Obj([i \in 1..Len(pairs) |-> [k |-> <<"p">> \o pairs[i][1], v |-> Str(pairs[i][2])]])),
            <<"p">>)

Incoming ==
    {Undef, Null} \cup {Str(x) : x \in StrUniverse}
    \cup {InflatedUnder(<< <<<<"0">>, "a">>, <<<<"1">>, "b">>, <<<<"2">>, "c">> >>),
          InflatedUnder(<< <<<<"2">>, "c">> >>),
          InflatedUnder(<< <<<<"1">>, "42">> >>),
          InflatedUnder(<< <<<<"0">>, "5">> >>),
          InflatedUnder(<< <<<<"b">>, "7">> >>)}

-----------------------------------------------------------------------------
(* The calls a program makes: process.env filled by the raw parser, then    *)
(* merge or config on the caller's object.  `arg` records what the call was *)
(* given, `out` what it returned or threw.                                  *)

NoCall(c) == [conf |-> c, given |-> FALSE, keys |-> <<>>]

Init ==
    /\ conf \in {DefaultConfs[i] : i \in 1..Len(DefaultConfs)}
    /\ env = Obj(<<>>)
    /\ op = "none"
    /\ arg = NoCall(conf)
    /\ out = Undef
    /\ calls = 0

\* The raw parser sets process.env[k] = v for a name not yet set.
SetEnv(i) ==
    /\ Len(env.e) < MaxEnv
    /\ i \in PairsFor(conf)
    /\ GetProp(env, EnvPairs[i][1]).t = "undefined"
    /\ env' = SetProp(env, EnvPairs[i][1], Str(EnvPairs[i][2]))
    /\ op' = "none"
    /\ arg' = NoCall(conf)
    /\ out' = Undef
    /\ UNCHANGED <<conf, calls>>

\* merge(conf): envKeys omitted
MergeOmitted ==
    /\ op' = "merge"
    /\ arg' = [conf |-> conf, given |-> FALSE, keys |-> <<>>]
    /\ out' = merge(conf, FALSE, <<>>, env)
    /\ conf' = mergeEffect(conf, out')
    /\ UNCHANGED <<env, calls>>

\* merge(conf, envKeys) with the names of process.env as envKeys
MergeExplicit ==
    /\ op' = "merge"
    /\ arg' = [conf |-> conf, given |-> TRUE, keys |-> Keys(env)]
    /\ out' = merge(conf, TRUE, Keys(env), env)
    /\ conf' = mergeEffect(conf, out')
    /\ UNCHANGED <<env, calls>>

\* config(conf, options): dotenv.config has put the parsed lines into
\* process.env and returns their names (none when the file is missing).
Config(parsedKeys) ==
    /\ calls < MaxCalls
    /\ LET mergedConfig == merge(conf, TRUE, parsedKeys, env)
       IN /\ conf' = configEffect(conf, mergedConfig)
          /\ out' = configReturn(conf, mergedConfig)
    /\ op' = "config"
    /\ arg' = [conf |-> conf, given |-> TRUE, keys |-> parsedKeys]
    /\ calls' = calls + 1
    /\ UNCHANGED env

Next ==
    \/ \E i \in 1..Len(EnvPairs) : SetEnv(i)
    \/ MergeOmitted
    \/ MergeExplicit
    \/ \E parsedKeys \in {Keys(env), <<>>} : Config(parsedKeys)

Spec == Init /\ [][Next]_vars

-----------------------------------------------------------------------------
(* The path codec on its own: deflate is given conf, as in merge, and      *)
(* inflate the flat mapping env; out is the value returned.                *)

InitCodec ==
    /\ \/ conf \in CodecTrees(MaxDepth) /\ env = Obj(<<>>)
       \/ conf = Obj(<<>>) /\ env \in UNION {FlatMappings(n) : n \in 0..MaxFlat}
    /\ calls = 0
    /\ op = "none"
    /\ out = Undef
    /\ arg = NoCall(Obj(<<>>))

\* inflate(deflate(conf, ''))
RoundTrip ==
    /\ op = "none"
    /\ conf.e # <<>>
    /\ op' = "roundtrip"
    /\ out' = inflate(deflate(conf, <<>>))
    /\ UNCHANGED <<conf, env, arg, calls>>

\* inflate(env)
InflateCall ==
    /\ op = "none"
    /\ conf.e = <<>>
    /\ op' = "inflate"
    /\ out' = inflate(env)
    /\ UNCHANGED <<conf, env, arg, calls>>

NextCodec == RoundTrip \/ InflateCall

SpecCodec == InitCodec /\ [][NextCodec]_vars

-----------------------------------------------------------------------------
(* The coercer on its own: arg.d is the default value, arg.e the incoming *)

InitValue ==
    /\ conf = Obj(<<>>)
    /\ env = Obj(<<>>)
    /\ calls = 0
    /\ op = "none"
    /\ out = Undef
    /\ arg \in [d : CoerceDefaults, e : Incoming]

\* mergeEnvJsonValue(d, e), as mergeEnvObject calls it
Coerce ==
    /\ op = "none"
    /\ op' = "coerce"
    /\ out' = mergeEnvJsonValue(arg.d, arg.e, "")
    /\ UNCHANGED <<conf, env, arg, calls>>

\* mergeEnvArray(d, e): its one caller passes an array default
ArrayMerge ==
    /\ op = "none"
    /\ arg.d.t = "array"
    /\ op' = "arraymerge"
    /\ out' = mergeEnvArray(arg.d, arg.e)
    /\ UNCHANGED <<conf, env, arg, calls>>

\* mergeEnvObject(d, e): its callers pass an object or nothing
ObjectMerge ==
    /\ op = "none"
    /\ arg.d.t \in {"object", "undefined"}
    /\ op' = "objectmerge"
    /\ out' = mergeEnvObject(arg.d, arg.e)
    /\ UNCHANGED <<conf, env, arg, calls>>

NextValue == Coerce \/ ArrayMerge \/ ObjectMerge

SpecValue == InitValue /\ [][NextValue]_vars

-----------------------------------------------------------------------------
(* Properties of the path codec (SpecCodec) *)

EntrySet(o) == {o.e[i] : i \in 1..Len(o.e)}

\* C1, as stated: for every tree T with scalar leaves and no empty
\* container, at any level including the root, inflate(deflate(T, ''))
\* holds exactly the dotted paths of deflate(T, ''), each with T's leaf.
C1_RoundTrip ==
    op = "roundtrip" => EntrySet(deflate(out, <<>>)) = EntrySet(deflate(conf, <<>>))

\* "parses as a finite number", with the empty segment and 'Infinity' not
\* counted as numbers, as C9 words it
ParsesAsFiniteNumber(seg) == seg # "" /\ NumberOfString(seg) \notin {"NaN", "Infinity"}

RECURSIVE PlacedAsStated(_, _, _, _)
\* Whether `value` sits in `after` where C9 says the segments put it, given
\* `before`, the same location before the entry was written.
PlacedAsStated(before, after, segs, value) ==
    LET seg == Head(segs)
        empty == before.t = "undefined" \/ KeyCount(before) = 0
        asArray == empty /\ ParsesAsFiniteNumber(seg)
        key == IF asArray THEN <<NumberOfString(seg)>> ELSE <<seg>>
        kindOk == IF asArray THEN after.t = "array"
                  ELSE IF empty THEN after.t = "object"
                  ELSE after.t = before.t
    IN /\ kindOk
       /\ IF Len(segs) = 1 THEN GetProp(after, key) = value
          ELSE PlacedAsStated(GetProp(before, key), GetProp(after, key), Tail(segs), value)

\* C9, as stated: at every level including the root, an empty location and
\* a segment that parses as a finite number give an array holding the entry
\* at that index; any other segment (the empty one, 'Infinity') or a
\* non-empty location gives or keeps an object / the existing container with
\* the segment as name; either way the entry's value is in what inflate
\* returns.  Checked for the entry inflate writes last.
C9_ContainerKind ==
    (op = "inflate" /\ Len(env.e) >= 1) =>
        LET last == env.e[Len(env.e)]
            before == inflate(Obj(SubSeq(env.e, 1, Len(env.e) - 1)))
        IN PlacedAsStated(before, out, TrimSplit(last.k), last.v)

-----------------------------------------------------------------------------
(* Properties of the coercer (SpecValue) *)

\* C2, as stated: an incoming value that is absent or one of "", "0",
\* "false" leaves the default unchanged and raises nothing.
C2_FalsyNeverOverrides ==
    (op = "coerce" /\ arg.e \in {Undef, Null, Str(""), Str("0"), Str("false")}) =>
        out = arg.d

\* C2, amended: an incoming value that is absent or the empty string leaves
\* every default unchanged and raises nothing; "0" and "false" are not
\* empty and are coerced like any other string: against a boolean default
\* "false" gives false and "0" raises a type mismatch, against a number
\* default "0" gives the number 0.
C2_EmptyNeverOverrides ==
    op = "coerce" =>
        /\ arg.e \in {Undef, Null, Str("")} => out = arg.d
        /\ (arg.d.t = "boolean" /\ arg.e = Str("false")) => out = Bool(FALSE)
        /\ (arg.d.t = "boolean" /\ arg.e = Str("0")) => out = TypeMismatch
        /\ (arg.d.t = "number" /\ arg.e = Str("0")) => out = Num("0")

C2_Witness ==
    op = "coerce" /\ arg.d = Bool(TRUE) /\ arg.e = Str("") /\ out = Bool(TRUE)

\* C3, as stated: with no default and no fallback type the result is
\* inferred from the trimmed incoming string: a number, else parsed JSON,
\* else a boolean, else the trimmed string ("3.5" gives the number 3.5).
C3_UntypedInference ==
    (op = "coerce" /\ arg.d.t = "undefined" /\ arg.e.t = "string" /\ arg.e.s # "") =>
        out = inferValue(arg.d, arg.e)

Max(a, b) == IF a > b THEN a ELSE b

\* C5, as stated: a non-empty default array D merged with an incoming
\* array E, holes included, has length max(len D, len E) and holds at each
\* index i the coercion of D[i] against E[i] with fallback type typeof D[0].
C5_ArrayMerge ==
    (op = "arraymerge" /\ arg.d.len > 0 /\ arg.e.t = "array" /\ ~IsErr(out)) =>
        /\ out.t = "array"
        /\ out.len = Max(arg.d.len, arg.e.len)
        /\ \A i \in 0..(out.len - 1) :
              GetProp(out, IdxKey(i)) =
                  mergeEnvJsonValue(GetProp(arg.d, IdxKey(i)), GetProp(arg.e, IdxKey(i)),
                                    TypeOf(GetProp(arg.d, IdxKey(0))))

\* C6, as stated: against a boolean default the string "true" gives true,
\* "false" gives false, and every other string raises.
C6_BooleanStrict ==
    (op = "coerce" /\ arg.d.t = "boolean" /\ arg.e.t = "string") =>
        CASE arg.e.s = "true" -> out = Bool(TRUE)
          [] arg.e.s = "false" -> out = Bool(FALSE)
          [] OTHER -> IsErr(out)

\* C6, amended: against a boolean default the empty string keeps the
\* default; a string that is the JSON text true or false, the literal alone
\* or inside JSON whitespace, gives that boolean; every other string raises.
C6_BooleanJsonText ==
    (op = "coerce" /\ arg.d.t = "boolean" /\ arg.e.t = "string") =>
        CASE arg.e.s = "" -> out = arg.d
          [] arg.e.s \in {"true", " true "} -> out = Bool(TRUE)
          [] arg.e.s = "false" -> out = Bool(FALSE)
          [] OTHER -> IsErr(out)

C6_Witness ==
    op = "coerce" /\ arg.d = Bool(TRUE) /\ arg.e = Str("false") /\ out = Bool(FALSE)

-----------------------------------------------------------------------------
(* Properties of merge and config (Spec) *)

\* C4: a merge or config call that raises hands the error to its caller
\* and leaves the caller's object as it was given.
C4_ErrorLeavesConf ==
    (op \in {"merge", "config"} /\ IsErr(merge(arg.conf, arg.given, arg.keys, env))) =>
        IsErr(out) /\ conf = arg.conf

C4_Witness ==
    /\ op = "config"
    /\ IsErr(out)
    /\ arg.conf = ObjOf(<<"port">>, <<Num("8080")>>)
    /\ GetProp(env, <<"port">>) = Str("not-a-number")

\* envKey.startsWith(path + '.')
ExtendsPath(envKey, path) ==
    Len(envKey) > Len(path) /\ SubSeq(envKey, 1, Len(path)) = path

\* The entries C7 says merge takes when envKeys is omitted: those named by
\* a leaf path of the default, then those named by a leaf path followed by
\* '.' and more.
StatedSelection(c, environ) ==
    LET keys == deflateKeys(c)
        more == SelectSeq(Keys(environ),
                          LAMBDA envKey : \E i \in 1..Len(keys) : ExtendsPath(envKey, keys[i]))
    IN collectEnv(keys \o more, environ, <<>>)

\* C7, as stated: with envKeys omitted the result is decided by exactly
\* the entries of StatedSelection and by no other entry of process.env.
C7_KeySelection ==
    (op = "merge" /\ ~arg.given /\ ~IsErr(out)) =>
        out = mergeEnvObject(arg.conf, inflate(StatedSelection(arg.conf, env)))

\* C8: merge leaves the object it is given as it was, whether it returns or
\* raises; the object changes only in a config call whose merge returned.
C8_MergeIsPure ==
    /\ op = "merge" => conf = arg.conf
    /\ conf # arg.conf => (op = "config" /\ ~IsErr(out))

C8_Witness ==
    /\ op = "merge"
    /\ ~IsErr(out)
    /\ out # conf
    /\ arg.conf = ObjOf(<<"a">>, <<ObjOf(<<"b">>, <<Num("1")>>)>>)
    /\ GetProp(GetProp(out, <<"a">>), <<"b">>) = Num("42")

RECURSIVE At(_, _)
\* The value under a dotted path of single-segment names
At(v, path) == IF path = <<>> THEN v ELSE At(GetProp(v, <<Head(path)>>), Tail(path))

\* C10, as stated: when merge returns, every path where the default holds a
\* string, a number or a boolean holds a value of that type in the result,
\* whatever the flat source and the explicit keys.
C10_TypePreserved ==
    (op = "merge" /\ ~IsErr(out)) =>
        LET flat == deflate(arg.conf, <<>>)
        IN \A i \in 1..Len(flat.e) :
              flat.e[i].v.t \in {"string", "number", "boolean"} =>
                  TypeOf(At(out, flat.e[i].k)) = flat.e[i].v.t
=============================================================================
